---- MODULE Spec2Model ----
\* A model of the Discord quote bot (src/src/main.rs): the `quotes` table, the
\* connection pool, and the two slash-command handlers `add` and `random`,
\* each cut at its await points.
EXTENDS Bags, FiniteSets, Integers, Sequences, TLC

VARIABLES
    store,      \* the rows of table `quotes`: a bag of rows
    db0,        \* the rows the database file held when the pool was opened
    inv,        \* the command invocations dispatched so far: a bag of handler states
    today,      \* the current UTC calendar date, as a day number
    running     \* the dispatch loop of framework.run() is alive

vars == <<store, db0, inv, today, running>>

\* ---------------------------------------------------------------- bounds
MaxInv == 2         \* invocations dispatched in one run of Spec
MaxDay == 2         \* the clock stops advancing at this day
ExtraInv == 1       \* invocations beyond the pool size in PoolSpec
LiveInv == 1        \* invocations in flight at once in LiveSpec
LiveRows == 2       \* rows LiveSpec lets the adds insert

MaxConnections == 5

Users == {"u1", "u2"}
Texts == {"a", "b"}

\* ---------------------------------------------------------------- values
\* Option<T>: None is the empty sequence, Some(x) the one-element sequence.
None == <<>>
Some(x) == <<x>>

\* One row of `quotes`; quote_date and quote are nullable columns.
Row(u, d, q) == [user_id |-> u, quote_date |-> d, quote |-> q]

Matching(u) == {x \in BagToSet(store) : x.user_id = u}

\* The query result a handler holds: nothing yet, a row, no row, or a failure.
NoEntry == [tag |-> "None", row |-> Row("", None, None)]
OkDone == [tag |-> "Ok", row |-> Row("", None, None)]
OkRow(x) == [tag |-> "Ok", row |-> x]
RowNotFound == [tag |-> "RowNotFound", row |-> Row("", None, None)]
IoError == [tag |-> "Io", row |-> Row("", None, None)]

\* A message handed to ctx.say / ctx.send.
NoResponse == [kind |-> "none", text |-> "", user |-> "", date |-> 0, ephemeral |-> FALSE]

AddedResponse(q, u) ==
    [kind |-> "added", text |-> q, user |-> u, date |-> 0, ephemeral |-> FALSE]

QuoteResponse(q, u, d) ==
    [kind |-> "quote", text |-> q, user |-> u, date |-> d, ephemeral |-> FALSE]

NotFoundResponse(u) ==
    [kind |-> "nofound", text |-> "", user |-> u, date |-> 0, ephemeral |-> TRUE]

\* The state of one handler invocation.
NewAdd(u, q) ==
    [cmd |-> "add", user |-> u, quote |-> q, date |-> today, pc |-> "acquire",
     tries |-> 0, found |-> FALSE, entry |-> NoEntry, response |-> NoResponse,
     sent |-> FALSE, res |-> "None"]

NewRandom(u) ==
    [cmd |-> "random", user |-> u, quote |-> "", date |-> 0, pc |-> "acquire",
     tries |-> 0, found |-> FALSE, entry |-> NoEntry, response |-> NoResponse,
     sent |-> FALSE, res |-> "None"]

Invs == BagToSet(inv)

InUse == BagCardinality([r \in {x \in Invs : x.pc = "exec"} |-> inv[r]])

Step(r, r2) == inv' = (inv (-) SetToBag({r})) (+) SetToBag({r2})

\* Bug: the handler's result is unwrapped, so an Err ends the process.
AfterHandlerUnwrap(r) == running /\ r.res = "Ok"

\* What a returned handler result does to the dispatch loop: FrameworkOptions keeps
\* the default on_error, which reports the error and goes on.
AfterHandler(r) == running

\* One handler runs from one await point to the next, or to its return.
Resume(r, r2) ==
    /\ Step(r, r2)
    /\ running' = IF r2.pc = "done" THEN AfterHandler(r2) ELSE running

\* ---------------------------------------------------------------- handlers
\* Bug: the result of execute is ignored (no `?`), so the reply is built anyway.
AddAfterExecuteSwallow(r, ok) ==
    [r EXCEPT !.pc = "reply", !.entry = IF ok THEN OkDone ELSE IoError,
              !.response = AddedResponse(r.quote, r.user)]

\* add, after `.execute(..).await?`: the error returns, success builds the reply.
AddAfterExecute(r, ok) ==
    IF ok
    THEN [r EXCEPT !.pc = "reply", !.entry = OkDone,
                   !.response = AddedResponse(r.quote, r.user)]
    ELSE [r EXCEPT !.pc = "done", !.entry = IoError, !.res = "Err:Db"]

\* Bug: the date is read when the statement runs, not at the top of the handler.
InsertRowNow(r) == Row(r.user, Some(today), Some(r.quote))

\* The row `add` binds to the INSERT.
InsertRow(r) == Row(r.user, Some(r.date), Some(r.quote))

\* Bug: only the quote text is checked for NULL.
RandomAfterFetchLax(r, e) ==
    IF e.tag = "Ok"
    THEN IF e.row.quote = None
         THEN [r EXCEPT !.pc = "done", !.entry = e, !.res = "Err:MalformedEntry"]
         ELSE [r EXCEPT !.pc = "reply", !.entry = e,
                        !.response = QuoteResponse(e.row.quote[1], r.user,
                            IF e.row.quote_date = None THEN 0 ELSE e.row.quote_date[1])]
    ELSE [r EXCEPT !.pc = "reply", !.entry = e, !.response = NotFoundResponse(r.user)]

\* Bug: the query result is propagated with `?`, so an empty result is an error too.
RandomAfterFetchStrict(r, e) ==
    IF e.tag = "Ok"
    THEN IF e.row.quote = None \/ e.row.quote_date = None
         THEN [r EXCEPT !.pc = "done", !.entry = e, !.res = "Err:MalformedEntry"]
         ELSE [r EXCEPT !.pc = "reply", !.entry = e,
                        !.response = QuoteResponse(e.row.quote[1], r.user,
                                                   e.row.quote_date[1])]
    ELSE [r EXCEPT !.pc = "done", !.entry = e, !.res = "Err:Db"]

\* random, after `.fetch_one(..).await`: `if let Ok(body) = entry { .. } else { .. }`.
RandomAfterFetch(r, e) ==
    IF e.tag = "Ok"
    THEN IF e.row.quote = None \/ e.row.quote_date = None
         THEN [r EXCEPT !.pc = "done", !.entry = e, !.res = "Err:MalformedEntry"]
         ELSE [r EXCEPT !.pc = "reply", !.entry = e,
                        !.response = QuoteResponse(e.row.quote[1], r.user,
                                                   e.row.quote_date[1])]
    ELSE [r EXCEPT !.pc = "reply", !.entry = e, !.response = NotFoundResponse(r.user)]

\* ---------------------------------------------------------------- actions
StartAdd(n, u, q) ==
    /\ running
    /\ BagCardinality(inv) < n
    /\ inv' = inv (+) SetToBag({NewAdd(u, q)})
    /\ UNCHANGED <<store, db0, today, running>>

StartRandom(n, u) ==
    /\ running
    /\ BagCardinality(inv) < n
    /\ inv' = inv (+) SetToBag({NewRandom(u)})
    /\ UNCHANGED <<store, db0, today, running>>

\* Bug: the pool counts one connection too many.
CanAcquireOffByOne == InUse <= MaxConnections

\* max_connections(5): a connection is handed out while fewer than 5 are in use.
CanAcquire == InUse < MaxConnections

Acquire(r) ==
    /\ r.pc = "acquire"
    /\ CanAcquire
    /\ Resume(r, [r EXCEPT !.pc = "exec"])
    /\ UNCHANGED <<store, db0, today>>

AfterFailure(r) ==
    IF r.cmd = "add"
    THEN AddAfterExecute(r, FALSE)
    ELSE RandomAfterFetch([r EXCEPT !.found = Matching(r.user) # {}], IoError)

AcquireTimeout(r) ==
    /\ r.pc = "acquire"
    /\ ~CanAcquire
    /\ Resume(r, AfterFailure(r))
    /\ UNCHANGED <<store, db0, today>>

\* Bug: INSERT OR REPLACE, a row equal to a stored one replaces it.
InsertReplace(s, x) == [y \in DOMAIN s \cup {x} |-> IF y = x THEN 1 ELSE s[y]]

\* INSERT INTO quotes: one more row, equal rows kept apart.
InsertInto(s, x) == s (+) SetToBag({x})

ExecInsert(r) ==
    /\ r.pc = "exec"
    /\ r.cmd = "add"
    /\ store' = InsertInto(store, InsertRow(r))
    /\ Resume(r, AddAfterExecute([r EXCEPT !.tries = @ + 1], TRUE))
    /\ UNCHANGED <<db0, today>>

ExecInsertFail(r) ==
    /\ r.pc = "exec"
    /\ r.cmd = "add"
    /\ Resume(r, AddAfterExecute([r EXCEPT !.tries = @ + 1], FALSE))
    /\ UNCHANGED <<store, db0, today>>

\* Bug: the WHERE clause is missing.
SelectedAny(u) == BagToSet(store)

\* Bug: the ORDER BY RANDOM() is missing, the same row comes back every time.
SelectedFirst(u) == IF Matching(u) = {} THEN {} ELSE {CHOOSE x \in Matching(u) : TRUE}

\* The rows `SELECT * FROM quotes WHERE user_id = ? ORDER BY RANDOM() LIMIT 1` may yield.
Selected(u) == Matching(u)

FetchOne(r, x) ==
    /\ r.pc = "exec"
    /\ r.cmd = "random"
    /\ x \in Selected(r.user)
    /\ Resume(r, RandomAfterFetch([r EXCEPT !.found = TRUE], OkRow(x)))
    /\ UNCHANGED <<store, db0, today>>

FetchNone(r) ==
    /\ r.pc = "exec"
    /\ r.cmd = "random"
    /\ Selected(r.user) = {}
    /\ Resume(r, RandomAfterFetch([r EXCEPT !.found = FALSE], RowNotFound))
    /\ UNCHANGED <<store, db0, today>>

FetchFail(r) ==
    /\ r.pc = "exec"
    /\ r.cmd = "random"
    /\ Resume(r, AfterFailure(r))
    /\ UNCHANGED <<store, db0, today>>

\* `ctx.say(..).await?` / `ctx.send(..).await?` followed by `Ok(())`.
AfterReply(r, ok) ==
    IF ok
    THEN [r EXCEPT !.pc = "done", !.sent = TRUE, !.res = "Ok"]
    ELSE [r EXCEPT !.pc = "done", !.res = "Err:Reply"]

Reply(r) ==
    /\ r.pc = "reply"
    /\ Resume(r, AfterReply(r, TRUE))
    /\ UNCHANGED <<store, db0, today>>

ReplyFail(r) ==
    /\ r.pc = "reply"
    /\ Resume(r, AfterReply(r, FALSE))
    /\ UNCHANGED <<store, db0, today>>

Tick ==
    /\ today < MaxDay
    /\ today' = today + 1
    /\ UNCHANGED <<store, db0, inv, running>>

\* ---------------------------------------------------------------- specification
GoodRow == Row("u1", Some(1), Some("a"))
NoTextRow == Row("u1", Some(1), None)
NoDateRow == Row("u2", None, Some("b"))

InitStores == {EmptyBag, SetToBag({GoodRow}), SetToBag({GoodRow, NoTextRow, NoDateRow})}

Init ==
    /\ db0 \in InitStores
    /\ store = db0
    /\ inv = EmptyBag
    /\ today = 1
    /\ running = TRUE

Next ==
    \/ \E u \in Users, q \in Texts : StartAdd(MaxInv, u, q)
    \/ \E u \in Users : StartRandom(MaxInv, u)
    \/ \E r \in Invs : Acquire(r)
    \/ \E r \in Invs : ExecInsert(r)
    \/ \E r \in Invs : ExecInsertFail(r)
    \/ \E r \in Invs : \E x \in BagToSet(store) : FetchOne(r, x)
    \/ \E r \in Invs : FetchNone(r)
    \/ \E r \in Invs : FetchFail(r)
    \/ \E r \in Invs : Reply(r)
    \/ \E r \in Invs : ReplyFail(r)
    \/ Tick

Spec == Init /\ [][Next]_vars

\* The pool under load: more invocations in flight than the pool has connections,
\* all naming one user and one text.
PoolInv == MaxConnections + ExtraInv

PoolInit ==
    /\ db0 = EmptyBag
    /\ store = db0
    /\ inv = EmptyBag
    /\ today = 1
    /\ running = TRUE

PoolNext ==
    \/ StartAdd(PoolInv, "u1", "a")
    \/ StartRandom(PoolInv, "u1")
    \/ \E r \in Invs : Acquire(r)
    \/ \E r \in Invs : AcquireTimeout(r)
    \/ \E r \in Invs : ExecInsert(r)
    \/ \E r \in Invs : ExecInsertFail(r)
    \/ \E r \in Invs : \E x \in BagToSet(store) : FetchOne(r, x)
    \/ \E r \in Invs : FetchNone(r)
    \/ \E r \in Invs : FetchFail(r)
    \/ \E r \in Invs : Reply(r)
    \/ \E r \in Invs : ReplyFail(r)

PoolSpec == PoolInit /\ [][PoolNext]_vars

\* Commands without end: a returned invocation is forgotten and makes room for the
\* next one; the adds stop once LiveRows rows were inserted.
Return(r) ==
    /\ r.pc = "done"
    /\ inv' = inv (-) SetToBag({r})
    /\ UNCHANGED <<store, db0, today, running>>

Pending == BagCardinality([r \in {x \in Invs : x.cmd = "add" /\ x.entry.tag = "None"} |-> inv[r]])

RowsLeft == BagCardinality(store) + Pending < BagCardinality(db0) + LiveRows

\* The text the adds of LiveSpec store, next to the texts the table starts with.
LiveTexts == {"b"}

LiveInit ==
    /\ db0 = SetToBag({GoodRow, NoTextRow})
    /\ store = db0
    /\ inv = EmptyBag
    /\ today = 1
    /\ running = TRUE

HandlerStep ==
    \E r \in Invs :
        \/ Acquire(r)
        \/ ExecInsert(r)
        \/ ExecInsertFail(r)
        \/ \E x \in BagToSet(store) : FetchOne(r, x)
        \/ FetchNone(r)
        \/ FetchFail(r)
        \/ Reply(r)
        \/ ReplyFail(r)

LiveNext ==
    \/ \E u \in Users, q \in LiveTexts : RowsLeft /\ StartAdd(LiveInv, u, q)
    \/ \E u \in Users : StartRandom(LiveInv, u)
    \/ HandlerStep
    \/ \E r \in Invs : Return(r)

\* The query of a random for user u yields a well-formed row with text q; the quote reply goes out.
FetchesQuote(u, q) ==
    \E r \in Invs : \E x \in Matching(u) : x.quote = Some(q) /\ x.quote_date # None /\ FetchOne(r, x)

RepliesQuote(u, q) ==
    \E r \in Invs : r.user = u /\ r.response.kind = "quote" /\ r.response.text = q /\ Reply(r)

\* The runtime polls every handler and forgets the returned ones; random is invoked
\* again and again for every user; the random order of the SELECT is fair to every
\* row; a reply that is tried again and again goes out.
LiveFair ==
    /\ WF_vars(HandlerStep)
    /\ WF_vars(\E r \in Invs : Return(r))
    /\ \A u \in Users : SF_vars(StartRandom(LiveInv, u))
    /\ \A u \in Users, q \in LiveTexts : SF_vars(FetchesQuote(u, q))
    /\ \A u \in Users, q \in LiveTexts : SF_vars(RepliesQuote(u, q))

LiveSpec == LiveInit /\ [][LiveNext]_vars /\ LiveFair

\* ---------------------------------------------------------------- properties
Adds == {r \in Invs : r.cmd = "add"}
Randoms == {r \in Invs : r.cmd = "random"}

\* The row an add invocation was asked to store.
AskedRow(r) == [user_id |-> r.user, quote_date |-> <<r.date>>, quote |-> <<r.quote>>]

\* The step taken turns invocation r into r2 and leaves every other invocation alone.
Moved(r, r2) == r # r2 /\ inv' = (inv (-) SetToBag({r})) (+) SetToBag({r2})

\* The invocations the step taken has dispatched.
Arrived == {r2 \in BagToSet(inv') : CopiesIn(r2, inv') > CopiesIn(r2, inv)
                                    /\ BagCardinality(inv') > BagCardinality(inv)}

RECURSIVE RowsAsked(_)
RowsAsked(S) ==
    IF S = {} THEN EmptyBag
    ELSE LET r == CHOOSE r \in S : TRUE
         IN  [x \in {AskedRow(r)} |-> inv[r]] (+) RowsAsked(S \ {r})

RowsOfUser(b, u) == BagCardinality([x \in {y \in BagToSet(b) : y.user_id = u} |-> b[x]])

AddsOfUser(u) == BagCardinality([r \in {x \in Adds : x.user = u} |-> inv[r]])

\* C1: a random whose query failed on the store ends with an error and never with
\* the "No quotes found" reply; that reply is sent only when the table holds no
\* row of the requested user.
C1_FailureIsNotEmpty ==
    \A r \in Randoms :
        /\ (r.pc = "done" /\ r.entry.tag = "Io") =>
              /\ r.res \notin {"Ok", "None"}
              /\ ~(r.sent /\ r.response.kind = "nofound")
        /\ (r.sent /\ r.response.kind = "nofound") => ~r.found

\* C2 as stated: a random for a user with no stored quote returns Ok and has sent
\* the ephemeral "No quotes found" reply naming the user, never a quote reply,
\* never an error.
C2_EmptyAlwaysOk ==
    \A r \in Randoms :
        (r.pc = "done" /\ ~r.found) =>
            /\ r.res = "Ok"
            /\ r.sent
            /\ r.response = NotFoundResponse(r.user)

\* C2 as amended: a random for a user with no stored quote builds the ephemeral
\* "No quotes found" reply naming the user, never a quote reply, and never yields
\* MalformedEntry or a store error; it returns Ok exactly when that reply was
\* sent, and the error of the send when the send failed.
C2_EmptyRepliesNotFound ==
    \A r \in Randoms :
        (r.pc \in {"reply", "done"} /\ ~r.found) =>
            /\ r.response = NotFoundResponse(r.user)
            /\ r.response.ephemeral
            /\ r.entry.tag \in {"RowNotFound", "Io"}
            /\ r.pc = "reply" => r.res = "None" /\ ~r.sent
            /\ r.pc = "done" => \/ r.res = "Ok" /\ r.sent
                                \/ r.res = "Err:Reply" /\ ~r.sent

C2_Witness ==
    \E r \in Randoms :
        /\ r.pc = "done" /\ ~r.found /\ r.res = "Ok" /\ r.sent
        /\ r.response.kind = "nofound"
        /\ Matching(r.user) = {}

\* C3: once every add invocation has completed successfully, the table holds the
\* rows it started with plus exactly one row per add, each with the user and the
\* text of its own invocation: per user, as many new rows as adds for that user.
C3_AddsDoNotInterfere ==
    (\A r \in Adds : r.pc = "done" /\ r.res = "Ok") =>
        /\ store = db0 (+) RowsAsked(Adds)
        /\ \A u \in Users : RowsOfUser(store, u) = RowsOfUser(db0, u) + AddsOfUser(u)

C3_Witness ==
    /\ \A r \in Adds : r.pc = "done" /\ r.res = "Ok"
    /\ \E r1, r2 \in Adds : r1.user # r2.user /\ r1.quote # r2.quote

\* C4: a step changes the table only by an add's INSERT, which adds exactly one
\* row with the invocation's user, its text and the date read when the handler
\* was called (the current date then); every stored row keeps its copies, so
\* equal adds give separate rows and nothing is modified or removed.
C4_InsertOnlyGrows ==
    [][/\ \A x \in BagToSet(store) : CopiesIn(x, store') >= CopiesIn(x, store)
       /\ \A r2 \in Arrived : r2.cmd = "add" => r2.date = today
       /\ store' # store =>
             \E r \in Adds : \E r2 \in BagToSet(inv') :
                 /\ r.pc = "exec" /\ r2.pc = "reply" /\ Moved(r, r2)
                 /\ store' = store (+) SetToBag({AskedRow(r)})
       /\ \A r \in Adds : \A r2 \in BagToSet(inv') :
             (r.pc = "exec" /\ r2.entry.tag = "Ok" /\ Moved(r, r2)) =>
                 store' = store (+) SetToBag({AskedRow(r)})
      ]_vars

C4_Witness ==
    \E r \in Adds :
        /\ r.res = "Ok" /\ inv[r] = 2
        /\ CopiesIn(AskedRow(r), store) = CopiesIn(AskedRow(r), db0) + 2

\* C5: the quote random replies with is the text and date of a stored row of the
\* requested user, and while the query runs every stored row of that user is a
\* possible result.
C5_QuoteIsOfUser ==
    \A r \in Randoms :
        /\ r.response.kind = "quote" =>
              /\ r.response.user = r.user
              /\ \E x \in BagToSet(store) :
                    /\ x.user_id = r.user
                    /\ x.quote = <<r.response.text>>
                    /\ x.quote_date = <<r.response.date>>
        /\ r.pc = "exec" =>
              \A x \in BagToSet(store) : x.user_id = r.user => ENABLED FetchOne(r, x)

C5_Witness ==
    \E r \in Randoms :
        /\ r.pc = "done" /\ r.res = "Ok" /\ r.sent /\ r.response.kind = "quote"
        /\ Cardinality(Matching(r.user)) >= 2
        /\ \E x \in BagToSet(store) : x.user_id # r.user

C7_MalformedEntry ==
    /\ [](\A r \in Invs :
            /\ (r.cmd = "random" /\ r.entry.tag = "Ok"
                /\ (r.entry.row.quote = <<>> \/ r.entry.row.quote_date = <<>>)) =>
                   /\ r.pc = "done" /\ r.res = "Err:MalformedEntry"
                   /\ r.response.kind = "none" /\ ~r.sent
            /\ r.res = "Err:MalformedEntry" =>
                   /\ r.cmd = "random" /\ r.entry.tag = "Ok"
                   /\ r.entry.row.quote = <<>> \/ r.entry.row.quote_date = <<>>)
    /\ [][\A r \in Randoms : \A r2 \in BagToSet(inv') :
             (Moved(r, r2) /\ r2.res = "Err:MalformedEntry") => store' = store]_vars

C7_Witness ==
    /\ \E r \in Randoms : r.res = "Err:MalformedEntry" /\ r.entry.row.quote = <<>>
    /\ \E r \in Randoms : r.res = "Err:MalformedEntry" /\ r.entry.row.quote_date = <<>>

\* C8: an add whose INSERT failed returns that error after one attempt and sends
\* nothing; an "added!" confirmation is sent only after exactly one INSERT of
\* the invocation has stored its row.
C8_FailedInsertNoReply ==
    \A r \in Adds :
        /\ r.tries <= 1
        /\ r.entry.tag = "Io" =>
              /\ r.pc = "done" /\ r.res = "Err:Db"
              /\ r.response.kind = "none" /\ ~r.sent
        /\ r.response.kind = "added" =>
              /\ r.tries = 1 /\ r.entry.tag = "Ok"
              /\ CopiesIn(AskedRow(r), store) >= 1

C8_Witness ==
    /\ \E r \in Adds : r.tries = 1 /\ r.res = "Err:Db"
    /\ \E r \in Adds : r.sent /\ r.response.kind = "added"

C10_PoolBound ==
    /\ [](/\ InUse <= 5
          /\ \A r \in Invs : r.pc = "acquire" =>
                /\ r.res = "None"
                /\ InUse < 5 => ENABLED Acquire(r))
    /\ [][\A r2 \in Arrived : r2.pc = "acquire" /\ r2.res = "None"]_vars

C10_Witness ==
    /\ InUse = 5
    /\ \E r \in Invs : r.pc = "acquire" /\ r.res = "None"

====
